---- MODULE Spec2Model ----
(***************************************************************************)
(* Model of the movie-genre-prediction data-gathering scripts:             *)
(*   - Link Collector      src/data-gathering/scrape.py                    *)
(*   - Detail Enricher     src/scrape_details.py                           *)
(*   - Gap Finder          src/refill_missing.py                           *)
(*   - Completeness check  src/verify_links.py                             *)
(*                                                                         *)
(* A Python string is a sequence of tokens (each token a run of            *)
(* characters); " " is a run of whitespace, "/" a slash.  A CSV file is    *)
(* the sequence of rows csv.reader yields for it, a row a sequence of      *)
(* cells.  The browser is the environment: every navigation and query      *)
(* outcome is a nondeterministic choice.                                   *)
(***************************************************************************)
EXTENDS Integers, Sequences, FiniteSets, TLC

VARIABLES
    \* ---- file system shared by the jobs
    links,          \* links/page<N>.csv      : page number -> file
    text_data,      \* text-data/data_page<N>.csv : page number -> file
    \* ---- Link Collector (scrape_filmweb_links)
    pc,             \* position in scrape_filmweb_links
    target_count, start_page, retries,
    page_num, attempt, elements, page_links, merge_idx, collected, returned,
    visit_log,      \* history: one record per visited page
    last_attempt,   \* history: how the latest pass of the retry loop ended
    \* ---- Detail Enricher (scrape_range)
    e_pc,           \* position in scrape_range
    range_start, range_end,
    e_page,         \* page_num of scrape_range
    page_urls,      \* the list `links` read for the page
    url_idx,        \* position of `for url in links`
    results,
    nav_log,        \* history: main navigation outcome of each URL, per page
    write_log,      \* history: data rows each result file held before its last write
    \* ---- Gap Finder (refill_missing.py)
    out_dir,        \* the directory scanned: file name -> file
    g_pc,           \* position in main
    pages,          \* the set find_pages_with_missing returned
    invoked,        \* history: the scrape_details.py commands run, in order
    \* ---- Completeness check (verify_links.py)
    links_isdir,    \* os.path.isdir(LINKS_DIR)
    v_pc, rc, missing, bad_header, short_files, problems

cvars == <<pc, target_count, start_page, retries, page_num, attempt, elements,
           page_links, merge_idx, collected, returned, visit_log, last_attempt>>
evars == <<e_pc, range_start, range_end, e_page, page_urls, url_idx, results,
           nav_log, write_log>>
gvars == <<out_dir, g_pc, pages, invoked>>
vvars == <<links_isdir, v_pc, rc, missing, bad_header, short_files, problems>>
vars == <<links, text_data, cvars, evars, gvars, vvars>>

----------------------------------------------------------------------------
(* Bounds of the model *)
MaxPage == 3            \* listing pages the site is asked for
MaxRetries == 1         \* largest --retries value tried

(* Program constants *)
MIN_ITEMS == 10         \* `len(elements) >= 10`, `elements[:10]`

----------------------------------------------------------------------------
(* Python helpers *)

Min(a, b) == IF a < b THEN a ELSE b
Max(a, b) == IF a > b THEN a ELSE b

\* s[:n]
PySlicePrefix(s, n) ==
    IF n >= 0 THEN SubSeq(s, 1, Min(n, Len(s)))
              ELSE SubSeq(s, 1, Max(Len(s) + n, 0))

\* x in s
InList(x, s) == \E i \in 1..Len(s) : s[i] = x

NoDuplicates(s) == \A i, j \in 1..Len(s) : s[i] = s[j] => i = j

----------------------------------------------------------------------------
(* Files *)

NoFile == [kind |-> "absent", rows |-> <<>>]
CsvFile(rows) == [kind |-> "file", rows |-> rows]

\* csv.writer: header row, then one row per item
PageFileRows(page_links_) ==
    <<<<<<"url">>>>>> \o [i \in 1..Len(page_links_) |-> <<page_links_[i]>>]

MutSaveMergedOnly(fs, page_links_, page_number) ==
    LET room == target_count - Len(collected)
        kept == SubSeq(page_links_, 1, IF room < Len(page_links_) THEN room
                                       ELSE Len(page_links_))
    IN  IF kept = <<>> THEN fs
        ELSE [fs EXCEPT ![page_number] = CsvFile(PageFileRows(kept))]

\* save_page_file: nothing is written for an empty list
save_page_file(fs, page_links_, page_number) ==
    IF page_links_ = <<>> THEN fs
    ELSE [fs EXCEPT ![page_number] = CsvFile(PageFileRows(page_links_))]

----------------------------------------------------------------------------
(* The listing site *)

Host == "https://www.filmweb.pl"

Rel(k) == <<"/", ToString(k)>>          \* root-relative href of film k
Abs(k) == <<Host, "/", ToString(k)>>    \* absolute href of film k

El(href) == [has |-> TRUE, href |-> href]       \* element with an href
NoHrefEl == [has |-> FALSE, href |-> <<>>]      \* get_attribute gives None
EmptyHrefEl == [has |-> TRUE, href |-> <<>>]    \* href=""

FirstId(p) == MIN_ITEMS * (p - 1)

\* What query_selector_all may return for listing page p: ten new films
\* (root-relative), the eleven first films (absolute), two elements for one
\* film and one without href, elements without a usable href, nothing
SiteLists(p) ==
    { [i \in 1..MIN_ITEMS |-> El(Rel(FirstId(p) + i))],
      [i \in 1..(MIN_ITEMS + 1) |-> El(Abs(i))],
      <<El(Rel(FirstId(p) + 1)), NoHrefEl, El(Abs(FirstId(p) + 1))>>,
      [i \in 1..MIN_ITEMS |-> IF i = 1 THEN EmptyHrefEl ELSE NoHrefEl],
      <<NoHrefEl>>,
      <<>> }

TargetCounts == {0, 3, 25}

----------------------------------------------------------------------------
(* Link Collector: scrape_filmweb_links *)

\* lines 126-133: hrefs of the elements, made absolute
RECURSIVE ExtractLinks(_)
ExtractLinks(els) ==
    IF els = <<>> THEN <<>>
    ELSE LET el == Head(els)
             rest == ExtractLinks(Tail(els))
         IN  IF ~el.has \/ el.href = <<>> THEN rest
             ELSE IF el.href[1] = "/" THEN <<<<Host>> \o el.href>> \o rest
             ELSE <<el.href>> \o rest

CInit ==
    /\ pc = "while"
    /\ target_count \in TargetCounts
    /\ start_page \in {1}
    /\ retries \in -1..MaxRetries
    /\ page_num = start_page
    /\ attempt = 0
    /\ elements = <<>>
    /\ page_links = <<>>
    /\ merge_idx = 0
    /\ collected = <<>>
    /\ returned = <<>>
    /\ visit_log = <<>>
    /\ last_attempt = "none"

MutAfterAttemptNoBreak(att, broke) ==
    IF att > retries THEN "after" ELSE "retry"

\* position after one pass of the retry loop body (lines 80, 109-110)
AfterAttempt(att, broke) ==
    IF broke \/ att > retries THEN "after" ELSE "retry"

\* line 75 true, lines 76-79
VisitPage ==
    /\ pc = "while"
    /\ Len(collected) < target_count
    /\ page_num <= MaxPage
    /\ attempt' = 0
    /\ elements' = <<>>
    /\ pc' = AfterAttempt(0, FALSE)
    /\ visit_log' = Append(visit_log,
                      [page |-> page_num, attempts |-> 0, queried |-> <<>>,
                       full_at |-> 0, elements |-> <<>>, links |-> <<>>,
                       processed |-> FALSE])
    /\ last_attempt' = "none"
    /\ UNCHANGED <<target_count, start_page, retries, page_num, page_links,
                   merge_idx, collected, returned, links, text_data, evars, gvars, vvars>>

\* line 75 false
TargetReached ==
    /\ pc = "while"
    /\ ~(Len(collected) < target_count)
    /\ pc' = "close"
    /\ UNCHANGED <<target_count, start_page, retries, page_num, attempt,
                   elements, page_links, merge_idx, collected, returned,
                   visit_log, last_attempt, links, text_data, evars, gvars, vvars>>

\* history of the current page: one more attempt made
LogAttempt == [visit_log EXCEPT ![Len(visit_log)].attempts = @ + 1]

\* history of the current page: one more attempt made, which got a query result
LogQuery(found) ==
    [visit_log EXCEPT ![Len(visit_log)] =
        [@ EXCEPT !.attempts = @ + 1,
                  !.queried = found,
                  !.full_at = IF Len(found) >= MIN_ITEMS /\ @ = 0
                                THEN visit_log[Len(visit_log)].attempts + 1
                                ELSE @]]

\* lines 81-92: page.goto times out
GotoTimeout ==
    /\ pc = "retry"
    /\ attempt' = attempt + 1
    /\ pc' = AfterAttempt(attempt', FALSE)
    /\ visit_log' = LogAttempt
    /\ last_attempt' = "goto_timeout"
    /\ UNCHANGED <<target_count, start_page, retries, page_num, elements,
                   page_links, merge_idx, collected, returned, links, text_data,
                   evars, gvars, vvars>>

\* lines 99-106: wait_for_selector times out
SelectorTimeout ==
    /\ pc = "retry"
    /\ elements' = <<>>
    /\ attempt' = attempt + 1
    /\ pc' = AfterAttempt(attempt', FALSE)
    /\ visit_log' = LogQuery(<<>>)
    /\ last_attempt' = "selector_timeout"
    /\ UNCHANGED <<target_count, start_page, retries, page_num, page_links,
                   merge_idx, collected, returned, links, text_data, evars, gvars, vvars>>

\* lines 108-118: query_selector_all returns found
QueryElements ==
    /\ pc = "retry"
    /\ \E found \in SiteLists(page_num) :
         /\ elements' = found
         /\ visit_log' = LogQuery(found)
         /\ last_attempt' = "query"
         /\ IF Len(found) >= MIN_ITEMS
              THEN attempt' = attempt /\ pc' = AfterAttempt(attempt, TRUE)
              ELSE attempt' = attempt + 1 /\ pc' = AfterAttempt(attempt', FALSE)
    /\ UNCHANGED <<target_count, start_page, retries, page_num, page_links,
                   merge_idx, collected, returned, links, text_data, evars, gvars, vvars>>

MutNoElementsContinue ==
    /\ pc = "after"
    /\ elements = <<>>
    /\ pc' = "endpage"
    /\ UNCHANGED <<target_count, start_page, retries, page_num, attempt,
                   elements, page_links, merge_idx, collected, returned,
                   visit_log, last_attempt, links, text_data, evars, gvars, vvars>>

\* lines 121-123
NoElementsStop ==
    /\ pc = "after"
    /\ elements = <<>>
    /\ pc' = "close"
    /\ visit_log' = [visit_log EXCEPT ![Len(visit_log)].elements = elements]
    /\ last_attempt' = "none"
    /\ UNCHANGED <<target_count, start_page, retries, page_num, attempt,
                   elements, page_links, merge_idx, collected, returned,
                   links, text_data, evars, gvars, vvars>>

\* lines 125-137
ExtractAndSave ==
    /\ pc = "after"
    /\ elements # <<>>
    /\ page_links' = ExtractLinks(PySlicePrefix(elements, MIN_ITEMS))
    /\ links' = save_page_file(links, page_links', page_num)
    /\ merge_idx' = 1
    /\ pc' = IF page_links' = <<>> THEN "endpage" ELSE "merge"
    /\ visit_log' = [visit_log EXCEPT ![Len(visit_log)] =
                       [@ EXCEPT !.elements = elements, !.links = page_links',
                                 !.processed = TRUE]]
    /\ UNCHANGED <<target_count, start_page, retries, page_num, attempt,
                   elements, collected, returned, last_attempt, text_data,
                   evars, gvars, vvars>>

MutMergeNoUniqueCheck ==
    /\ pc = "merge"
    /\ collected' = Append(collected, page_links[merge_idx])
    /\ merge_idx' = merge_idx + 1
    /\ pc' = IF Len(collected') >= target_count \/ merge_idx' > Len(page_links)
               THEN "endpage" ELSE "merge"
    /\ UNCHANGED <<target_count, start_page, retries, page_num, attempt,
                   elements, page_links, returned, visit_log, last_attempt,
                   links, text_data, evars, gvars, vvars>>

\* lines 140-145: one pass of `for u in page_links`
MergeStep ==
    /\ pc = "merge"
    /\ LET u == page_links[merge_idx]
       IN  IF ~InList(u, collected)
             THEN /\ collected' = Append(collected, u)
                  /\ IF Len(collected') >= target_count
                       THEN merge_idx' = merge_idx /\ pc' = "endpage"
                       ELSE /\ merge_idx' = merge_idx + 1
                            /\ pc' = IF merge_idx' > Len(page_links)
                                       THEN "endpage" ELSE "merge"
             ELSE /\ collected' = collected
                  /\ merge_idx' = merge_idx + 1
                  /\ pc' = IF merge_idx' > Len(page_links)
                             THEN "endpage" ELSE "merge"
    /\ UNCHANGED <<target_count, start_page, retries, page_num, attempt,
                   elements, page_links, returned, visit_log, last_attempt,
                   links, text_data, evars, gvars, vvars>>

\* lines 147-150
EndPage ==
    /\ pc = "endpage"
    /\ page_num' = page_num + 1
    /\ pc' = "while"
    /\ last_attempt' = "none"
    /\ UNCHANGED <<target_count, start_page, retries, attempt, elements,
                   page_links, merge_idx, collected, returned, visit_log,
                   links, text_data, evars, gvars, vvars>>

\* lines 152-157
Return ==
    /\ pc = "close"
    /\ returned' = PySlicePrefix(collected, target_count)
    /\ pc' = "done"
    /\ UNCHANGED <<target_count, start_page, retries, page_num, attempt,
                   elements, page_links, merge_idx, collected, visit_log, last_attempt,
                   links, text_data, evars, gvars, vvars>>

----------------------------------------------------------------------------
(* Python string helpers *)

IsSpace(t) == t \in {" ", "\n", "\r"}

RECURSIVE LStrip(_)
LStrip(s) == IF s # <<>> /\ IsSpace(Head(s)) THEN LStrip(Tail(s)) ELSE s

RECURSIVE RStrip(_)
RStrip(s) ==
    IF s # <<>> /\ IsSpace(s[Len(s)]) THEN RStrip(SubSeq(s, 1, Len(s) - 1))
    ELSE s

\* s.strip()
Strip(s) == RStrip(LStrip(s))

\* s.replace("\n", " ").replace("\r", " ")
ReplaceNewlines(s) ==
    [i \in 1..Len(s) |-> IF s[i] \in {"\n", "\r"} THEN " " ELSE s[i]]

\* sep.join(parts)
RECURSIVE Join(_, _)
Join(sep, parts) ==
    IF parts = <<>> THEN <<>>
    ELSE IF Len(parts) = 1 THEN parts[1]
    ELSE parts[1] \o <<sep>> \o Join(sep, Tail(parts))

----------------------------------------------------------------------------
(* Detail Enricher: scrape_details.py *)

NumPages == 2           \* page files the Enricher is run over

NonEmptyRow(r) == r # <<>>
NonEmptyText(t) == t # <<>>

\* read_links_for_page
read_links_for_page(fs, n) ==
    IF fs[n].kind # "file" \/ Len(fs[n].rows) <= 1 THEN <<>>
    ELSE LET data == SelectSeq(Tail(fs[n].rows), NonEmptyRow)
         IN  [i \in 1..Len(data) |-> Strip(data[i][1])]

ResultHeader == <<<<"url">>, <<"title">>, <<"genres">>, <<"description">>>>

MutWritePageResultsAppend(fs, n, rows) ==
    IF fs[n].kind = "file" THEN [fs EXCEPT ![n] = CsvFile(fs[n].rows \o rows)]
    ELSE [fs EXCEPT ![n] = CsvFile(<<ResultHeader>> \o rows)]

\* merges into an existing result file: prior rows whose url the new rows lack
\* are kept after the new rows
MutWritePageResultsMerge(fs, n, rows) ==
    LET Rewritten(r) == \E i \in 1..Len(rows) : rows[i][1] = r[1]
        Kept(r) == ~Rewritten(r)
    IN  IF fs[n].kind = "file"
        THEN [fs EXCEPT ![n] = CsvFile(<<ResultHeader>> \o rows
                                        \o SelectSeq(Tail(fs[n].rows), Kept))]
        ELSE [fs EXCEPT ![n] = CsvFile(<<ResultHeader>> \o rows)]

\* write_page_results: the file is opened with mode "w"
write_page_results(fs, n, rows) ==
    [fs EXCEPT ![n] = CsvFile(<<ResultHeader>> \o rows)]

\* An element handle of a detail page: absent, detached (inner_text raises)
\* or carrying a text
NoElement == [found |-> FALSE, detached |-> FALSE, text |-> <<>>]
Detached == [found |-> TRUE, detached |-> TRUE, text |-> <<>>]
Found(text) == [found |-> TRUE, detached |-> FALSE, text |-> text]

\* extract_text_or_empty
extract_text_or_empty(el) == IF el.detached THEN <<>> ELSE Strip(el.text)

\* lines 97-101
TitleOf(el) == IF el.found THEN extract_text_or_empty(el) ELSE <<>>

\* lines 104-109
GenresOf(genre_els) ==
    Join(";", SelectSeq([i \in 1..Len(genre_els) |->
                            extract_text_or_empty(genre_els[i])],
                        NonEmptyText))

\* lines 113-124
DescOf(d) ==
    IF d.nav = "timeout" THEN <<>>
    ELSE Strip(ReplaceNewlines(IF d.el.found THEN extract_text_or_empty(d.el)
                               ELSE <<>>))

\* What the detail pages of one URL may give once the main page has loaded
UrlOutcomes ==
    { [title |-> Found(<<" ", "Movie A", " ">>),
       genres |-> <<Found(<<"Drama">>), Detached, Found(<<"Comedy", " ">>)>>,
       desc |-> [nav |-> "ok", el |-> Found(<<"Line 1", "\n", "Line 2", " ">>)]],
      [title |-> NoElement,
       genres |-> <<>>,
       desc |-> [nav |-> "ok", el |-> NoElement]],
      [title |-> Found(<<"Movie B">>),
       genres |-> <<Found(<<"Drama">>)>>,
       desc |-> [nav |-> "timeout", el |-> NoElement]] }

\* Link lists the Collector may have saved for page p
LinkLists(p) ==
    IF p = 1 THEN { <<Abs(1)>>, <<<<" ">> \o Abs(3), Abs(2) \o <<"/">>>> }
    ELSE { <<Abs(1)>> }

EInit ==
    /\ e_pc = "idle"
    /\ range_start = 1
    /\ range_end = 0
    /\ e_page = 1
    /\ page_urls = <<>>
    /\ url_idx = 0
    /\ results = <<>>
    /\ nav_log = [p \in 1..NumPages |-> <<>>]
    /\ write_log = [p \in 1..NumPages |-> -1]

\* the Collector (re)writes a page file between two Enricher runs
Rescrape ==
    /\ e_pc \in {"idle", "done"}
    /\ \E p \in 1..NumPages : \E l \in LinkLists(p) :
           links' = save_page_file(links, l, p)
    /\ e_pc' = "idle"
    /\ UNCHANGED <<text_data, range_start, range_end, e_page, page_urls,
                   url_idx, results, nav_log, write_log, cvars, gvars, vvars>>

\* main, lines 71-80
StartRun ==
    /\ e_pc \in {"idle", "done"}
    /\ \E s, e \in 1..NumPages : /\ range_start' = s
                                 /\ range_end' = e
                                 /\ e_page' = s
    /\ e_pc' = "page"
    /\ page_urls' = <<>>
    /\ url_idx' = 0
    /\ results' = <<>>
    /\ nav_log' = [p \in 1..NumPages |-> <<>>]
    /\ write_log' = [p \in 1..NumPages |-> -1]
    /\ UNCHANGED <<links, text_data, cvars, gvars, vvars>>

\* lines 80-86
ReadPage ==
    /\ e_pc = "page"
    /\ e_page <= range_end
    /\ LET l == read_links_for_page(links, e_page)
       IN  IF l = <<>>
             THEN /\ e_page' = e_page + 1
                  /\ UNCHANGED <<e_pc, page_urls, url_idx, results>>
             ELSE /\ page_urls' = l
                  /\ results' = <<>>
                  /\ url_idx' = 1
                  /\ e_pc' = "url"
                  /\ UNCHANGED e_page
    /\ UNCHANGED <<links, text_data, range_start, range_end, nav_log,
                   write_log, cvars, gvars, vvars>>

AfterUrl(idx) == IF idx > Len(page_urls) THEN "write" ELSE "url"

MutMainTimeoutDropsRow ==
    /\ e_pc = "url"
    /\ url_idx' = url_idx + 1
    /\ e_pc' = AfterUrl(url_idx')
    /\ nav_log' = [nav_log EXCEPT ![e_page] = Append(@, "timeout")]
    /\ UNCHANGED <<links, text_data, range_start, range_end, e_page,
                   page_urls, results, write_log, cvars, gvars, vvars>>

\* lines 88-94: page.goto(url) times out
MainTimeout ==
    /\ e_pc = "url"
    /\ results' = Append(results, <<page_urls[url_idx], <<>>, <<>>, <<>>>>)
    /\ url_idx' = url_idx + 1
    /\ e_pc' = AfterUrl(url_idx')
    /\ nav_log' = [nav_log EXCEPT ![e_page] = Append(@, "timeout")]
    /\ UNCHANGED <<links, text_data, range_start, range_end, e_page,
                   page_urls, write_log, cvars, gvars, vvars>>

\* lines 96-128: the main page loaded
ScrapeUrl ==
    /\ e_pc = "url"
    /\ \E o \in UrlOutcomes :
           results' = Append(results, <<page_urls[url_idx], TitleOf(o.title),
                                        GenresOf(o.genres), DescOf(o.desc)>>)
    /\ url_idx' = url_idx + 1
    /\ e_pc' = AfterUrl(url_idx')
    /\ nav_log' = [nav_log EXCEPT ![e_page] = Append(@, "ok")]
    /\ UNCHANGED <<links, text_data, range_start, range_end, e_page,
                   page_urls, write_log, cvars, gvars, vvars>>

\* lines 130-131
WritePage ==
    /\ e_pc = "write"
    /\ text_data' = write_page_results(text_data, e_page, results)
    /\ write_log' = [write_log EXCEPT ![e_page] =
                        IF text_data[e_page].kind = "file"
                          THEN Len(text_data[e_page].rows) - 1 ELSE -1]
    /\ e_page' = e_page + 1
    /\ e_pc' = "page"
    /\ UNCHANGED <<links, range_start, range_end, page_urls, url_idx, results,
                   nav_log, cvars, gvars, vvars>>

\* lines 133-136
EndRun ==
    /\ e_pc = "page"
    /\ e_page > range_end
    /\ e_pc' = "done"
    /\ UNCHANGED <<links, text_data, range_start, range_end, e_page,
                   page_urls, url_idx, results, nav_log, write_log, cvars,
                   gvars, vvars>>

----------------------------------------------------------------------------
(* Gap Finder: refill_missing.py *)

MaxGapRows == 2         \* data rows of a scanned result file

MISSING_TITLE == <<"__MISSING_TITLE__">>
MISSING_DESC == <<"__MISSING_DESCRIPTION__">>

Unreadable == [kind |-> "unreadable", rows |-> <<>>]

\* c.lower(), on the words used here
LowerToken(t) ==
    CASE t = "Title" -> "title"
      [] t = "GENRES" -> "genres"
      [] t = "Description" -> "description"
      [] t = "URL" -> "url"
      [] OTHER -> t

Lower(s) == [i \in 1..Len(s) |-> LowerToken(s[i])]

\* int(m.group(1))
DigitStrings == {"1", "2", "01"}
IntOf(t) == CASE t = "1" -> 1 [] t = "01" -> 1 [] t = "2" -> 2

\* PAGE_RE.search(name): the name ends with data_page<digits>.csv
PageReMatches(name) ==
    /\ Len(name) >= 3
    /\ name[Len(name) - 2] = "data_page"
    /\ name[Len(name) - 1] \in DigitStrings
    /\ name[Len(name)] = ".csv"

PageReGroup(name) == IntOf(name[Len(name) - 1])

\* idx_map.get(col): the last header cell equal to col once stripped and
\* lowered; 0 stands for None
IdxMapGet(header, col) ==
    LET hits == {i \in 1..Len(header) : Lower(Strip(header[i])) = <<col>>}
    IN  IF hits = {} THEN 0 ELSE CHOOSE i \in hits : \A j \in hits : j <= i

MutFieldOfOffByOne(r, idx) == IF idx < Len(r) THEN Strip(r[idx]) ELSE <<>>

\* lines 71-73: r[i].strip() if i < len(r) else ""   (idx is i + 1)
FieldOf(r, idx) == IF idx <= Len(r) THEN Strip(r[idx]) ELSE <<>>

\* line 74
RowHasMissing(r, ti, gi, di) ==
    LET title == FieldOf(r, ti)
        genres == FieldOf(r, gi)
        desc == FieldOf(r, di)
    IN  \/ title = <<>>
        \/ genres = <<>>
        \/ desc = <<>>
        \/ title = MISSING_TITLE
        \/ desc = MISSING_DESC

\* lines 46-76: the body of the loop over the directory, for one file
FileHasMissing(file) ==
    IF file.kind = "unreadable" THEN TRUE
    ELSE IF Len(file.rows) < 2 THEN TRUE
    ELSE LET header == file.rows[1]
             ti == IdxMapGet(header, "title")
             gi == IdxMapGet(header, "genres")
             di == IdxMapGet(header, "description")
         IN  IF ti = 0 \/ gi = 0 \/ di = 0 THEN TRUE
             ELSE \E k \in 2..Len(file.rows) :
                      RowHasMissing(file.rows[k], ti, gi, di)

\* os.listdir(out_dir)
ListDir(dir) == {name \in DOMAIN dir.files : dir.files[name].kind # "absent"}

\* find_pages_with_missing
find_pages_with_missing(dir) ==
    IF ~dir.isdir THEN {}
    ELSE { PageReGroup(name) :
             name \in {n \in ListDir(dir) :
                          PageReMatches(n) /\ FileHasMissing(dir.files[n])} }

\* The directory entries of the scanned directories
NamePage1 == <<"data_page", "1", ".csv">>
NameOldPage1 == <<"old_", "data_page", "01", ".csv">>
NamePage2 == <<"data_page", "2", ".csv">>
NameBackup == <<"data_page", "1", ".csv", ".bak">>

GapHeaders ==
    { ResultHeader,
      <<<<"Description">>, <<" ", "Title", " ">>, <<"GENRES">>>>,
      <<<<"url">>, <<"title">>, <<"description">>>> }

GapCells ==
    { <<>>, <<" ">>, MISSING_TITLE, MISSING_DESC }

GoodRow == <<Abs(1), <<"Movie A">>, <<"Drama">>, <<"A description">>>>

\* Data rows: the complete row, the complete row with one field replaced,
\* and rows cut short
GapRows ==
    {GoodRow}
    \cup {[GoodRow EXCEPT ![k] = c] : k \in 2..4, c \in GapCells}
    \cup {<<>>, SubSeq(GoodRow, 1, 3)}

RECURSIVE RowSeqs(_)
RowSeqs(n) ==
    IF n = 0 THEN {<<>>}
    ELSE RowSeqs(n - 1)
         \cup {Append(rs, r) : rs \in {t \in RowSeqs(n - 1) : Len(t) = n - 1},
                               r \in GapRows}

\* The files tried under the name data_page1.csv
ProbeFiles ==
    {NoFile, Unreadable, CsvFile(<<>>)}
    \cup {CsvFile(<<h>> \o rs) : h \in GapHeaders, rs \in RowSeqs(MaxGapRows)}

GoodFile == CsvFile(<<ResultHeader, GoodRow>>)
BadFile == CsvFile(<<ResultHeader, [GoodRow EXCEPT ![2] = <<>>]>>)

GapDir(f1, f2, f3, f4) ==
    [isdir |-> TRUE,
     files |-> (NamePage1 :> f1) @@ (NameOldPage1 :> f2)
               @@ (NamePage2 :> f3) @@ (NameBackup :> f4)]

GapDirs ==
    {[isdir |-> FALSE, files |-> GapDir(NoFile, NoFile, NoFile, NoFile).files]}
    \cup {GapDir(f1, f2, f3, f4) : f1 \in ProbeFiles,
                                   f2 \in {NoFile, BadFile},
                                   f3 \in {NoFile, Unreadable, GoodFile},
                                   f4 \in {NoFile, BadFile}}

GInit ==
    /\ out_dir \in GapDirs
    /\ g_pc = "start"
    /\ pages = {}
    /\ invoked = <<>>

\* main, lines 101-113: the call of run_scrape_for_pages is commented out
GapMain ==
    /\ g_pc = "start"
    /\ pages' = find_pages_with_missing(out_dir)
    /\ invoked' = invoked
    /\ g_pc' = "done"
    /\ UNCHANGED <<out_dir, links, text_data, cvars, evars, vvars>>

----------------------------------------------------------------------------
(* Completeness check: verify_links.py *)

\* EXPECTED_COUNT (1000) and EXPECTED_ROWS_PER_FILE (10), scaled down
EXPECTED_COUNT == 2
EXPECTED_ROWS_PER_FILE == 2

\* f"page{i}.csv"
FName(i) == <<"page", ToString(i), ".csv">>

\* lines 33-38
RECURSIVE MissingUpTo(_, _)
MissingUpTo(fs, n) ==
    IF n = 0 THEN <<>>
    ELSE LET acc == MissingUpTo(fs, n - 1)
         IN  IF fs[n].kind = "absent" THEN Append(acc, FName(n)) ELSE acc

\* line 71: r and any(cell.strip() for cell in r)
NonBlankRow(r) == r # <<>> /\ \E c \in 1..Len(r) : Strip(r[c]) # <<>>

\* line 71
DataCount(rows) == Cardinality({k \in 2..Len(rows) : NonBlankRow(rows[k])})

\* line 66
BadHeader(header) == header = <<>> \/ Lower(Strip(header[1])) # <<"url">>

\* lines 47-73
RECURSIVE InspectUpTo(_, _)
InspectUpTo(fs, n) ==
    IF n = 0 THEN [short_files |-> <<>>, bad_header |-> <<>>, problems |-> <<>>]
    ELSE LET acc == InspectUpTo(fs, n - 1)
             f == fs[n]
         IN  IF f.kind = "absent" THEN acc
             ELSE IF f.kind = "unreadable"
               THEN [acc EXCEPT !.problems =
                                   Append(@, <<FName(n), "error reading">>)]
             ELSE IF f.rows = <<>>
               THEN [acc EXCEPT !.short_files = Append(@, <<FName(n), 0>>)]
             ELSE [acc EXCEPT
                     !.bad_header = IF BadHeader(f.rows[1])
                                      THEN Append(@, FName(n)) ELSE @,
                     !.short_files =
                         IF DataCount(f.rows) < EXPECTED_ROWS_PER_FILE
                           THEN Append(@, <<FName(n), DataCount(f.rows)>>)
                           ELSE @]

MutExitCodeIgnoresMissing(missing_, bad_header_, short_files_, problems_) ==
    IF bad_header_ # <<>> \/ short_files_ # <<>> \/ problems_ # <<>>
      THEN 1 ELSE 0

\* lines 92-96
ExitCode(missing_, bad_header_, short_files_, problems_) ==
    IF missing_ # <<>> \/ bad_header_ # <<>> \/ short_files_ # <<>>
       \/ problems_ # <<>>
      THEN 1 ELSE 0

\* The files tried under each name page<i>.csv; a header is a row
VerifyHeaders == { <<<<"url">>>>, <<<<" ", "URL">>>>, <<<<"link">>>>, <<>> }

\* k rows with a link, then j blank rows
VerifyDataRows(k, j) ==
    [i \in 1..k |-> <<Abs(i)>>]
    \o [i \in 1..j |-> IF i = 1 THEN <<>> ELSE <<<<" ">>>>]

VerifyFiles ==
    {NoFile, Unreadable, CsvFile(<<>>)}
    \cup {CsvFile(<<h>> \o VerifyDataRows(k, j)) :
             h \in VerifyHeaders,
             k \in 0..(EXPECTED_ROWS_PER_FILE + 1), j \in 0..1}

VInit ==
    /\ v_pc = "start"
    /\ rc = -1
    /\ missing = <<>>
    /\ bad_header = <<>>
    /\ short_files = <<>>
    /\ problems = <<>>
    /\ \/ /\ links_isdir = TRUE
          /\ links \in [1..EXPECTED_COUNT -> VerifyFiles]
       \/ /\ links_isdir = FALSE
          /\ links = [p \in 1..EXPECTED_COUNT |-> NoFile]

\* verify
Verify ==
    /\ v_pc = "start"
    /\ IF ~links_isdir
         THEN /\ rc' = 2
              /\ UNCHANGED <<missing, bad_header, short_files, problems>>
         ELSE LET found == InspectUpTo(links, EXPECTED_COUNT)
              IN  /\ missing' = MissingUpTo(links, EXPECTED_COUNT)
                  /\ short_files' = found.short_files
                  /\ bad_header' = found.bad_header
                  /\ problems' = found.problems
                  /\ rc' = ExitCode(missing', bad_header', short_files',
                                    problems')
    /\ v_pc' = "done"
    /\ UNCHANGED <<links, links_isdir, text_data, cvars, evars, gvars>>


----------------------------------------------------------------------------
(* Specifications *)

\* the Collector has not been started / is not running
CIdle ==
    /\ pc = "done"
    /\ target_count = 0
    /\ start_page = 1
    /\ retries = 0
    /\ page_num = 1
    /\ attempt = 0
    /\ elements = <<>>
    /\ page_links = <<>>
    /\ merge_idx = 0
    /\ collected = <<>>
    /\ returned = <<>>
    /\ visit_log = <<>>
    /\ last_attempt = "none"

GIdle ==
    /\ out_dir = <<>>
    /\ g_pc = "idle"
    /\ pages = {}
    /\ invoked = <<>>

VIdle ==
    /\ links_isdir = TRUE
    /\ v_pc = "idle"
    /\ rc = -1
    /\ missing = <<>>
    /\ bad_header = <<>>
    /\ short_files = <<>>
    /\ problems = <<>>

CollectorInit ==
    /\ CInit
    /\ EInit
    /\ GIdle
    /\ VIdle
    /\ links = [p \in 1..(MaxPage + 1) |-> NoFile]
    /\ text_data = [p \in 1..(MaxPage + 1) |-> NoFile]

CollectorNext ==
    \/ VisitPage
    \/ TargetReached
    \/ GotoTimeout
    \/ SelectorTimeout
    \/ QueryElements
    \/ NoElementsStop
    \/ ExtractAndSave
    \/ MergeStep
    \/ EndPage
    \/ Return

SpecCollector == CollectorInit /\ [][CollectorNext]_vars

EnricherInit ==
    /\ CIdle
    /\ EInit
    /\ GIdle
    /\ VIdle
    /\ links = [p \in 1..NumPages |-> NoFile]
    /\ text_data = [p \in 1..NumPages |-> NoFile]

EnricherNext ==
    \/ Rescrape
    \/ StartRun
    \/ ReadPage
    \/ MainTimeout
    \/ ScrapeUrl
    \/ WritePage
    \/ EndRun

SpecEnricher == EnricherInit /\ [][EnricherNext]_vars

GapInit ==
    /\ CIdle
    /\ EInit
    /\ GInit
    /\ VIdle
    /\ links = [p \in 1..NumPages |-> NoFile]
    /\ text_data = [p \in 1..NumPages |-> NoFile]

GapNext == GapMain

SpecGap == GapInit /\ [][GapNext]_vars

VerifyInit ==
    /\ CIdle
    /\ EInit
    /\ GIdle
    /\ VInit
    /\ text_data = [p \in 1..NumPages |-> NoFile]

VerifyNext == Verify

SpecVerify == VerifyInit /\ [][VerifyNext]_vars


----------------------------------------------------------------------------
(* Properties of the Link Collector *)

LastVisit == visit_log[Len(visit_log)]

\* All links extracted on the pages visited so far, in order
RECURSIVE LinksOfVisits(_)
LinksOfVisits(n) ==
    IF n = 0 THEN <<>> ELSE LinksOfVisits(n - 1) \o visit_log[n].links

DataRows(file) == Len(file.rows) - 1

\* C1: the running list `collected` never exceeds target_count and never
\* holds a URL twice, and the list returned by a finished run has length
\* <= target_count and no URL twice.
C1_BoundedUnique ==
    /\ Len(collected) <= target_count
    /\ NoDuplicates(collected)
    /\ pc = "done" => /\ Len(returned) <= target_count
                      /\ NoDuplicates(returned)

\* a finished run that met the same URL on two pages and filled its target
C1_Witness ==
    /\ pc = "done"
    /\ target_count > 0
    /\ Len(returned) = target_count
    /\ ~NoDuplicates(LinksOfVisits(Len(visit_log)))

\* C3 (as claimed): every processed page has its Page File written before
\* the next page is visited, even when no URL was extracted from it; the
\* file holds the header row `url` and 0 to 10 data rows.
C3_PageFileAlwaysWritten ==
    \A i \in 1..Len(visit_log) :
        visit_log[i].processed =>
            /\ links[visit_log[i].page].kind = "file"
            /\ links[visit_log[i].page].rows[1] = <<<<"url">>>>
            /\ DataRows(links[visit_log[i].page]) \in 0..MIN_ITEMS

\* C8: when the run stops because the target was reached while merging a
\* page, exactly target_count links are returned and that page's file
\* holds every URL extracted from the page, merged or not.
C8_LastPageFileComplete ==
    (/\ pc = "done"
     /\ visit_log # <<>>
     /\ LastVisit.processed
     /\ Len(collected) >= target_count)
    => /\ Len(returned) = target_count
       /\ links[LastVisit.page] = CsvFile(PageFileRows(LastVisit.links))
       /\ DataRows(links[LastVisit.page]) <= MIN_ITEMS

\* target 25, pages 1-3 with 10 new links each: 25 returned, page3.csv has
\* 10 data rows, 5 of them not in the returned list
C8_Witness ==
    /\ pc = "done"
    /\ target_count = 25
    /\ Len(visit_log) = 3
    /\ \A i \in 1..3 : visit_log[i].page = i /\ Len(visit_log[i].links) = 10
    /\ NoDuplicates(LinksOfVisits(3))
    /\ Len(returned) = 25
    /\ DataRows(links[3]) = 10
    /\ merge_idx = 5
    /\ Cardinality({r \in 2..11 : ~InList(links[3].rows[r][1], returned)}) = 5

\* C9 (as claimed): a page from which no URL is extracted ends the loop, so
\* every page followed by another visit contributed at least one link.
C9_NoVisitAfterLinklessPage ==
    \A i \in 1..(Len(visit_log) - 1) : visit_log[i].links # <<>>

\* C9 (amended): the loop ends only when the list has reached target_count
\* or the retry loop of the page just visited ended with no matched element;
\* no page is visited after a page whose retry loop ended with no match; a
\* page with matched elements but no extracted URL leaves the loop running
\* and the next page number is the one tried.
C9_StopsOnTargetOrNoElements ==
    /\ \A i \in 1..(Len(visit_log) - 1) :
           visit_log[i].processed /\ visit_log[i].elements # <<>>
    /\ pc \in {"close", "done"} =>
           \/ Len(collected) >= target_count
           \/ /\ visit_log # <<>>
              /\ ~LastVisit.processed
              /\ LastVisit.queried = <<>>
              /\ elements = <<>>
    /\ (pc = "endpage" /\ LastVisit.links = <<>>) =>
           Len(collected) < target_count
    /\ (pc = "while" /\ visit_log # <<>>) =>
           LastVisit.processed /\ page_num = LastVisit.page + 1

\* the loop stopped short of its target on a page without any match, after
\* having gone past a page whose elements had no href
C9_Witness ==
    /\ pc = "done"
    /\ Len(collected) < target_count
    /\ Len(visit_log) >= 2
    /\ LastVisit.queried = <<>>
    /\ \E i \in 1..(Len(visit_log) - 1) :
           visit_log[i].elements # <<>> /\ visit_log[i].links = <<>>

\* C10: a page gets at most retries + 1 attempts, none after the first
\* attempt that found >= 10 matches, and the page is then processed with the
\* result of the last attempt that got as far as querying the selector.
C10_BoundedRetries ==
    /\ \A i \in 1..Len(visit_log) :
           /\ visit_log[i].attempts <= retries + 1
           /\ visit_log[i].full_at # 0 =>
                  visit_log[i].attempts = visit_log[i].full_at
           /\ visit_log[i].processed =>
                  visit_log[i].elements = visit_log[i].queried
    /\ pc = "after" => elements = LastVisit.queried
    /\ pc = "retry" => LastVisit.full_at = 0

\* a page processed after retries + 1 attempts, the last one a load timeout,
\* with the three matches of the attempt before
C10_Witness ==
    /\ retries = 1
    /\ visit_log # <<>>
    /\ LastVisit.processed
    /\ LastVisit.attempts = 2
    /\ LastVisit.full_at = 0
    /\ last_attempt = "goto_timeout"
    /\ Len(LastVisit.elements) = 3
    /\ Len(LastVisit.links) = 2

----------------------------------------------------------------------------
(* Properties of the Detail Enricher *)

\* pages the current run of scrape_range has gone past
FinishedPages ==
    IF e_pc = "idle" THEN {}
    ELSE {p \in range_start..range_end : p < e_page}

LinkCount(p) == IF links[p].kind = "file" THEN Len(links[p].rows) - 1 ELSE 0
ResultCount(p) ==
    IF text_data[p].kind = "file" THEN Len(text_data[p].rows) - 1 ELSE 0

BlankRecord(url) == <<url, <<>>, <<>>, <<>>>>

\* C2: for a page with a non-empty Page File the result file has exactly one
\* row per URL of the Page File, in the same order, whatever the outcome of
\* each URL; a URL whose main navigation timed out has the row
\* [url, "", "", ""].
C2_OneRowPerUrl ==
    /\ e_pc \in {"url", "write"} =>
          /\ Len(results) = url_idx - 1
          /\ \A i \in 1..Len(results) :
                /\ Len(results[i]) = 4
                /\ results[i][1] = page_urls[i]
                /\ nav_log[e_page][i] = "timeout" =>
                       results[i] = BlankRecord(page_urls[i])
    /\ \A p \in FinishedPages :
          LinkCount(p) > 0 =>
             /\ text_data[p].kind = "file"
             /\ text_data[p].rows[1] = ResultHeader
             /\ Len(text_data[p].rows) = Len(links[p].rows)
             /\ \A i \in 2..Len(text_data[p].rows) :
                   /\ Len(text_data[p].rows[i]) = 4
                   /\ text_data[p].rows[i][1] = Strip(links[p].rows[i][1])
                   /\ nav_log[p][i - 1] = "timeout" =>
                          text_data[p].rows[i] =
                              BlankRecord(Strip(links[p].rows[i][1]))

\* a written page of two URLs: the first timed out, the second has its row
C2_Witness ==
    /\ e_pc = "done"
    /\ \E p \in FinishedPages :
          /\ nav_log[p] = <<"timeout", "ok">>
          /\ Len(text_data[p].rows) = 3
          /\ text_data[p].rows[2] = BlankRecord(Strip(links[p].rows[2][1]))
          /\ text_data[p].rows[3][2] # <<>>

\* C7: after a run of the Enricher over a page, the number of data rows of
\* the page's result file equals the number of links of its Page File,
\* whatever the result file held before.
C7_OverwriteNotAppend ==
    \A p \in FinishedPages : ResultCount(p) = LinkCount(p)

\* a re-run over a page whose result file held more rows than the page now
\* has links
C7_Witness ==
    /\ e_pc = "done"
    /\ \E p \in FinishedPages :
          /\ write_log[p] > LinkCount(p)
          /\ ResultCount(p) = LinkCount(p)

\* the urls of the current Page File of page p, trimmed as the Enricher reads
\* them; none when the Page File is absent
PageFileUrls(p) ==
    IF links[p].kind # "file" THEN {}
    ELSE {Strip(links[p].rows[k][1]) :
              k \in {j \in 2..Len(links[p].rows) : links[p].rows[j] # <<>>}}

\* no Detail Record of page p has a url foreign to the current Page File
NoOrphan(p) ==
    text_data[p].kind = "file" =>
        \A i \in 2..Len(text_data[p].rows) :
            text_data[p].rows[i][1] \in PageFileUrls(p)

\* C11 (as stated): after any sequence of Collector and Enricher runs, every
\* Detail Record of data_pageN.csv has a url that appears in the current
\* pageN.csv.
C11_NoOrphanRecords == \A p \in 1..NumPages : NoOrphan(p)

C11_Step ==
    \A p \in 1..NumPages :
        /\ text_data'[p] # text_data[p] => NoOrphan(p)'
        /\ (NoOrphan(p) /\ ~NoOrphan(p)') =>
               /\ links'[p] # links[p]
               /\ text_data'[p] = text_data[p]

\* C11 (amended): every write of data_pageN.csv by the Enricher leaves only
\* records whose url is the trimmed url of a row of the current pageN.csv;
\* a record becomes an orphan only by a step of the Collector that overwrites
\* pageN.csv, which leaves data_pageN.csv as it was.
C11_OrphansOnlyByRescrape == [][C11_Step]_vars

\* a re-run over a page whose Page File had been overwritten with more, other
\* links (one of them padded with whitespace) since its result file was
\* written: the result file has the new urls only
C11_Witness ==
    /\ e_pc = "done"
    /\ \E p \in FinishedPages :
          /\ write_log[p] >= 1
          /\ write_log[p] < LinkCount(p)
          /\ text_data[p].rows[2][1] # links[p].rows[2][1]
          /\ NoOrphan(p)

----------------------------------------------------------------------------
(* Properties of the Gap Finder *)

RequiredColumns == {"title", "genres", "description"}

HasColumn(header, col) ==
    \E i \in 1..Len(header) : Lower(Strip(header[i])) = <<col>>

\* the value a data row has in the named column, "" when the row is too short
ValueIn(r, header, col) ==
    LET i == CHOOSE k \in 1..Len(header) : Lower(Strip(header[k])) = <<col>>
    IN  IF i \in 1..Len(r) THEN Strip(r[i]) ELSE <<>>

DataRowsOf(file) == {file.rows[k] : k \in 2..Len(file.rows)}

Malformed(file) ==
    \/ file.kind = "unreadable"
    \/ Len(file.rows) < 2
    \/ \E col \in RequiredColumns : ~HasColumn(file.rows[1], col)

\* incomplete as claimed: either sentinel in any of the three fields counts
IncompleteAsClaimed(file) ==
    \/ Malformed(file)
    \/ \E r \in DataRowsOf(file) : \E col \in RequiredColumns :
           ValueIn(r, file.rows[1], col) \in {<<>>, MISSING_TITLE, MISSING_DESC}

\* incomplete as amended: each sentinel counts in its own field only
IncompleteAsAmended(file) ==
    \/ Malformed(file)
    \/ \E r \in DataRowsOf(file) :
           \/ \E col \in RequiredColumns : ValueIn(r, file.rows[1], col) = <<>>
           \/ ValueIn(r, file.rows[1], "title") = MISSING_TITLE
           \/ ValueIn(r, file.rows[1], "description") = MISSING_DESC

\* the result files of page n that the directory holds
ResultFilesOf(n) ==
    {out_dir.files[name] :
        name \in {m \in (IF n = 1 THEN {NamePage1, NameOldPage1}
                         ELSE IF n = 2 THEN {NamePage2} ELSE {}) :
                     out_dir.files[m].kind # "absent"}}

RECURSIVE SortedSeq(_)
SortedSeq(S) ==
    IF S = {} THEN <<>>
    ELSE LET m == CHOOSE x \in S : \A y \in S : x <= y
         IN  <<m>> \o SortedSeq(S \ {m})

\* C6 (as claimed): a run of the Gap Finder job has invoked the Enricher
\* once for each flagged page, with start = end = that page, in order, and
\* for no other page.
C6_ReinvokesFlaggedPages ==
    g_pc = "done" =>
        invoked = [i \in 1..Cardinality(pages) |->
                      [start |-> SortedSeq(pages)[i],
                       end |-> SortedSeq(pages)[i]]]

----------------------------------------------------------------------------
(* Properties of the completeness check *)

Range(s) == {s[i] : i \in 1..Len(s)}

ExpectedPages == 1..EXPECTED_COUNT

\* page<p>.csv is there, readable and not empty
HasRows(p) == links[p].kind = "file" /\ links[p].rows # <<>>

FirstHeaderIsUrl(p) ==
    /\ links[p].rows[1] # <<>>
    /\ Lower(Strip(links[p].rows[1][1])) = <<"url">>

NonBlankDataRows(p) ==
    Cardinality({k \in 2..Len(links[p].rows) :
                    \E c \in 1..Len(links[p].rows[k]) :
                        Strip(links[p].rows[k][c]) # <<>>})

ValidPageFile(p) ==
    /\ HasRows(p)
    /\ links[p].rows[1] = <<<<"url">>>>
    /\ NonBlankDataRows(p) = EXPECTED_ROWS_PER_FILE
    /\ Len(links[p].rows) = EXPECTED_ROWS_PER_FILE + 1

\* C5: verify returns 2 when the links directory is absent; otherwise it
\* returns 0 only if the lists of missing files, of files whose first header
\* column is not `url` and of files with too few non-blank data rows are all
\* empty, and 1 when one of them is not; a directory holding only a valid
\* page1.csv gives missing = the other expected files, no bad header, no
\* short file, and the result 1.
C5_VerifyResult ==
    v_pc = "done" =>
        IF ~links_isdir THEN rc = 2
        ELSE /\ rc \in {0, 1}
             /\ rc = 0 => missing = <<>> /\ bad_header = <<>>
                          /\ short_files = <<>>
             /\ (missing # <<>> \/ bad_header # <<>> \/ short_files # <<>>)
                    => rc = 1
             /\ Range(missing) =
                    {FName(p) : p \in {q \in ExpectedPages :
                                          links[q].kind = "absent"}}
             /\ Range(bad_header) =
                    {FName(p) : p \in {q \in ExpectedPages :
                                          HasRows(q) /\ ~FirstHeaderIsUrl(q)}}
             /\ {short_files[i][1] : i \in 1..Len(short_files)} =
                    {FName(p) : p \in {q \in ExpectedPages :
                        /\ links[q].kind = "file"
                        /\ NonBlankDataRows(q) < EXPECTED_ROWS_PER_FILE}}
             /\ (ValidPageFile(1)
                 /\ \A p \in ExpectedPages \ {1} : links[p].kind = "absent")
                    => /\ missing = [i \in 1..(EXPECTED_COUNT - 1) |->
                                        FName(i + 1)]
                       /\ bad_header = <<>>
                       /\ short_files = <<>>
                       /\ rc = 1

\* the directory holds a valid page1.csv and nothing else: page2.csv is
\* reported missing and the result is 1
C5_Witness ==
    /\ v_pc = "done"
    /\ links_isdir
    /\ ValidPageFile(1)
    /\ links[2].kind = "absent"
    /\ missing = <<<<"page", "2", ".csv">>>>
    /\ bad_header = <<>>
    /\ short_files = <<>>
    /\ rc = 1

====
